---- MODULE Spec2Model ----
(***************************************************************************)
(* Statistics chart widget of Telegram Desktop                             *)
(* (Telegram/SourceFiles/statistics/chart_widget.cpp): the footer range    *)
(* selector, the chart animation controller and the list of horizontal     *)
(* gridline groups, as one state machine.                                  *)
(*                                                                         *)
(* Numbers.  Times are crl::time milliseconds.  X fractions and opacities  *)
(* are float64/float in the code; here they are fixed-point numbers in     *)
(* units of 1/Res, products and quotients truncated toward zero.  Y values *)
(* are whole numbers (the series values are ints), interpolated values     *)
(* truncated toward zero.  Progress of the Y rescale is counted in units   *)
(* of 1/DtOne so that the speeds 0.015 and 0.0225 are whole.               *)
(***************************************************************************)
EXTENDS Integers, Sequences, FiniteSets, TLC

\* ---------------------------------------------------------------- bounds
\* Resolution of X fractions and opacities: 1.0 is Res units.
Res == 1000
\* Width of the footer track, in pixels (width()).
TrackWidth == 4
\* Width of a footer handle, in pixels (st::colorSliderWidth).
HandleWidth == 1
\* Number of repaints followed that come with the clock where the event
\* before left it (a repaint right after an event, or a second repaint of
\* the same frame).
MaxPaints == 1
\* Number of times the clock is followed moving on with no repaint, so
\* that the next event comes between two repaints.
MaxSkips == 1
\* crl::now() when the widget is constructed.
StartTime == 1000
\* The clock is followed up to StartTime + Horizon.
Horizon == 320
\* Number of setChartData calls and footer move and release events
\* followed in one run.
MaxInputs == 3
\* Longest list of gridline groups followed.
MaxGroups == 5
\* The clock of a long run is followed up to StartTime + RunHorizon.
RunHorizon == 40000
\* Time between two frames of a long run.
RunStep == 100
\* Time from StartTime on during which a long run follows the events that
\* meet a running animation.
RunBusy == 0

\* ---------------------------------------------------- program constants
kHeightLimitsUpdateTimeout == 320
kExpandingDelay == 100
kXExpandingDuration == 200
kAlphaExpandingDuration == 200
\* 1. as a Y progress fraction, in the units of the speeds below.
DtOne == 400
\* 0.03 / 2, 0.03 / 2 and 0.045 / 2 in units of 1/DtOne.
kDtHeightSpeed1 == 6
kDtHeightSpeed2 == 6
kDtHeightSpeed3 == 9
\* 0.7, 0.1 and 0.97 in hundredths.
kDtHeightSpeedThreshold1 == 70
kDtHeightSpeedThreshold2 == 10
kDtHeightInstantThreshold == 97
\* std::numeric_limits<int>::max()
IntMax == 2147483647

\* ------------------------------------------------------------ arithmetic
Min(a, b) == IF a < b THEN a ELSE b
Max(a, b) == IF a > b THEN a ELSE b
Abs(a) == IF a < 0 THEN -a ELSE a
Sign(a) == IF a < 0 THEN -1 ELSE 1
\* std::clamp(v, lo, hi) is defined for lo <= hi only.  With hi < lo the
\* standard libraries differ: one computes min(max(v, lo), hi), the other
\* (v < lo) ? lo : (hi < v) ? hi : v; Clamp is the set of their results,
\* one value when lo <= hi.  (A library built with assertions ends the
\* program instead, which leaves the state as it is.)
ClampMinMax(v, lo, hi) == Min(Max(v, lo), hi)
ClampLoFirst(v, lo, hi) == IF v < lo THEN lo ELSE IF hi < v THEN hi ELSE v
Clamp(v, lo, hi) == {ClampMinMax(v, lo, hi), ClampLoFirst(v, lo, hi)}

\* floor(a * n / d) for a >= 0, n >= 0, d > 0, without forming a * n.
MulDiv(a, n, d) == (a \div d) * n + ((a % d) * n) \div d
ModMul(a, n, d) == ((a % d) * n) % d

\* floor(a * (n/d)^3) for a >= 0, 0 <= n <= d.
CubeFrac(a, n, d) ==
    LET q1 == MulDiv(a, n, d)
        r1 == ModMul(a, n, d)
        q2 == MulDiv(q1, n, d)
        r2 == ModMul(q1, n, d)
        m2 == d * r2 + r1 * n
        q3 == MulDiv(q2, n, d)
        r3 == ModMul(q2, n, d)
    IN  q3 + (d * d * r3 + m2 * n) \div (d * d * d)

\* anim::linear(delta, dt) = delta * dt, dt = n/d.
Linear(delta, n, d) == Sign(delta) * MulDiv(Abs(delta), n, d)
\* anim::easeInCubic(delta, dt) = delta * dt * dt * dt, dt = n/d.
EaseInCubic(delta, n, d) == Sign(delta) * CubeFrac(Abs(delta), n, d)

\* An int divided by float64(width()), as a fixed-point fraction.
Fraction(p, w) == Sign(p) * MulDiv(Abs(p), Res, w)

\* ------------------------------------------------------------ anim::value
\* anim::value holds _cur, _from and _delta; to() is _from + _delta.
Value(from, to) == [cur |-> from, from |-> from, delta |-> to - from]
To(v) == v.from + v.delta
ValueStart(v, to) == [cur |-> v.cur, from |-> v.cur, delta |-> to - v.cur]
ValueFinish(v) == [cur |-> To(v), from |-> To(v), delta |-> 0]
ValueUpdateLinear(v, n, d) == [v EXCEPT !.cur = v.from + Linear(v.delta, n, d)]
ValueUpdateCubic(v, n, d) == [v EXCEPT !.cur = v.from + EaseInCubic(v.delta, n, d)]

\* ----------------------------------------------- Data::StatisticalChart
\* xPercentage of every chart: samples at 0, 1/4, 1/2, 3/4 and 1.
XPercentage == [i \in 1..5 |-> Fraction(i - 1, 4)]
\* The charts setChartData is called with; 0 stands for "no chart data".
\* The values are large enough for the first steps of the cubic easing,
\* (0.015)^3 of the way, to move a whole-number Y limit.
Charts ==
    << [xPercentage |-> XPercentage,
        lines |-> << <<1000000, 2000000, 500000, 4000000, 1500000>> >>],
       [xPercentage |-> XPercentage,
        lines |-> << <<3000000, 850000, 2500000, 2600000, 700000>>,
                     <<1200000, 1000000, 3500000, 800000, 3100000>> >>] >>
NoChart == [xPercentage |-> <<>>, lines |-> <<>>]
ChartOf(d) == IF d = 0 THEN NoChart ELSE Charts[d]

\* findStartIndex: the first sample at or after the fraction (0-based);
\* the number of samples when there is none.
findStartIndex(chart, v) ==
    LET n == Len(chart.xPercentage)
        at == {i \in 1..n : chart.xPercentage[i] >= v}
    IN  IF v = 0 \/ n < 2 THEN 0
        ELSE IF at = {} THEN n
        ELSE (CHOOSE i \in at : \A j \in at : i <= j) - 1
\* findEndIndex: the last sample at or before the fraction, searched from
\* the start index on; start - 1 when there is none.
findEndIndex(chart, left, v) ==
    LET n == Len(chart.xPercentage)
        at == {i \in (left + 1)..n : chart.xPercentage[i] <= v}
    IN  IF v = Res THEN n - 1
        ELSE IF at = {} THEN left - 1
        ELSE (CHOOSE i \in at : \A j \in at : i >= j) - 1

\* What a range query returns over an index range that holds no sample:
\* an undefined number.  The two outcomes followed are the query that
\* folds over nothing (the largest int as minimum, the smallest as maximum)
\* and the query that answers 0.
OutsideData == {[min |-> IntMax, max |-> -IntMax - 1], [min |-> 0, max |-> 0]}
\* The store chart with outside as the result of such a query.
Queried(chart, outside) ==
    [xPercentage |-> chart.xPercentage, lines |-> chart.lines,
     outside |-> outside]

\* lines[i].segmentTree.rMaxQ / rMinQ over [from, to] (0-based).
rMaxQ(chartData, i, from, to) ==
    IF from > to THEN chartData.outside.max
    ELSE LET vs == {chartData.lines[i][k + 1] : k \in from..to}
         IN  CHOOSE m \in vs : \A x \in vs : x <= m
rMinQ(chartData, i, from, to) ==
    IF from > to THEN chartData.outside.min
    ELSE LET vs == {chartData.lines[i][k + 1] : k \in from..to}
         IN  CHOOSE m \in vs : \A x \in vs : m <= x

RECURSIVE FoldMax(_, _, _, _, _)
FoldMax(chartData, i, startXIndex, endXIndex, maxValue) ==
    IF i > Len(chartData.lines) THEN maxValue
    ELSE FoldMax(chartData, i + 1, startXIndex, endXIndex,
                 Max(rMaxQ(chartData, i, startXIndex, endXIndex), maxValue))
RECURSIVE FoldMin(_, _, _, _, _)
FoldMin(chartData, i, startXIndex, endXIndex, minValue) ==
    IF i > Len(chartData.lines) THEN minValue
    ELSE FoldMin(chartData, i + 1, startXIndex, endXIndex,
                 Min(rMinQ(chartData, i, startXIndex, endXIndex), minValue))

FindMaxValue(chartData, startXIndex, endXIndex) ==
    FoldMax(chartData, 1, startXIndex, endXIndex, 0)
FindMinValue(chartData, startXIndex, endXIndex) ==
    FoldMin(chartData, 1, startXIndex, endXIndex, IntMax)

\* ------------------------------------------- ChartAnimationController
\* The controller's fields.  started is _animation.started(): -1 while the
\* animation is not running.
NewController ==
    [started |-> -1,
     animValueXMin |-> Value(0, 0),
     animValueXMax |-> Value(0, 0),
     animValueYMin |-> Value(0, 0),
     animValueYMax |-> Value(0, 0),
     animValueYAlpha |-> Value(0, 0),
     lastUserInteracted |-> 0,
     finalHeightLimits |-> [min |-> 0, max |-> 0],
     dtYSpeed |-> 0,
     dtCurrent |-> [min |-> 0, max |-> 0],
     yAnimationStartedAt |-> 0,
     alphaAnimationStartedAt |-> 0]

animating(c) == c.started >= 0

\* A start() that restarts an animation that is running.
StartAlways(c, clock) == [c EXCEPT !.started = clock]

\* start(): starts _animation at crl::now() unless it is running.
Start(c, clock) == IF ~animating(c) THEN [c EXCEPT !.started = clock] ELSE c

\* A test that compares the pair with the current limits, not the target.
SameXTargetCur(c, xPercentageLimits) ==
    /\ c.animValueXMin.cur = xPercentageLimits.min
    /\ c.animValueXMax.cur = xPercentageLimits.max

\* The test that makes setXPercentageLimits return at once.
SameXTarget(c, xPercentageLimits) ==
    /\ To(c.animValueXMin) = xPercentageLimits.min
    /\ To(c.animValueXMax) = xPercentageLimits.max

\* The min and max of all lines over the index range of an X window.
HeightLimitsIn(chartData, startXIndex, endXIndex) ==
    [min |-> FindMinValue(chartData, startXIndex, endXIndex),
     max |-> FindMaxValue(chartData, startXIndex, endXIndex)]
HeightLimitsFrom(chartData, startXIndex, xMax) ==
    HeightLimitsIn(chartData, startXIndex,
                   findEndIndex(chartData, startXIndex, xMax))
HeightLimitsOf(chartData, xMin, xMax) ==
    HeightLimitsFrom(chartData, findStartIndex(chartData, xMin), xMax)

\* k = (current Y span) / float64(final Y span), inverted when above 1:
\* a fraction n/d with d > 0, or NaN for 0/0.  x/0 is +inf (inverted to 0)
\* or -inf (any negative number compares the same way).
HeightRatio(span, finalSpan) ==
    IF finalSpan = 0
      THEN IF span = 0 THEN [nan |-> TRUE, n |-> 0, d |-> 1]
           ELSE IF span > 0 THEN [nan |-> FALSE, n |-> 0, d |-> 1]
           ELSE [nan |-> FALSE, n |-> -1, d |-> 1]
    ELSE LET n == span * Sign(finalSpan)
             d == Abs(finalSpan)
         IN  IF n > d THEN [nan |-> FALSE, n |-> d, d |-> n]
             ELSE [nan |-> FALSE, n |-> n, d |-> d]
\* k > h/100 and k < h/100; both false for NaN.  n/d > h/100 is
\* n > floor(h*d/100), and n/d < h/100 is n < ceiling(h*d/100).
RatioAbove(k, h) == ~k.nan /\ k.n > MulDiv(k.d, h, 100)
RatioBelow(k, h) ==
    ~k.nan /\ k.n < MulDiv(k.d, h, 100)
                      + (IF ((k.d % 100) * h) % 100 = 0 THEN 0 ELSE 1)

HeightSpeed(k) ==
    IF RatioAbove(k, kDtHeightSpeedThreshold1) THEN kDtHeightSpeed1
    ELSE IF RatioBelow(k, kDtHeightSpeedThreshold2) THEN kDtHeightSpeed2
    ELSE kDtHeightSpeed3
\* Whether the Y progress starts over.
HeightRestarts(k) == RatioBelow(k, kDtHeightInstantThreshold)

\* setXPercentageLimits(chartData, xPercentageLimits, now); clock is what
\* crl::now() returns inside start().
\* The speed and the progress of the Y rescale, from the ratio k.
Rescaled(c, k) ==
    [c EXCEPT !.dtYSpeed = HeightSpeed(k),
              !.dtCurrent = IF HeightRestarts(k) THEN [min |-> 0, max |-> 0]
                            ELSE c.dtCurrent]
\* The targets moved: started is the controller after start(), final the
\* new final Y limits.
Retargeted(started, xPercentageLimits, now, final) ==
    Rescaled([started EXCEPT
                !.animValueXMin = ValueStart(started.animValueXMin,
                                             xPercentageLimits.min),
                !.animValueXMax = ValueStart(started.animValueXMax,
                                             xPercentageLimits.max),
                !.lastUserInteracted = now,
                !.finalHeightLimits = final,
                !.animValueYMin = Value(started.animValueYMin.cur, final.min),
                !.animValueYMax = Value(started.animValueYMax.cur, final.max)],
             HeightRatio(started.animValueYMax.cur - started.animValueYMin.cur,
                         final.max - final.min))
setXPercentageLimits(c, chartData, xPercentageLimits, now, clock) ==
    IF SameXTarget(c, xPercentageLimits) THEN c
    ELSE Retargeted(Start(c, clock), xPercentageLimits, now,
                    HeightLimitsOf(chartData, xPercentageLimits.min,
                                   xPercentageLimits.max))

\* A finish() that stops the animation and leaves the values where they are.
StopOnly(c) == [c EXCEPT !.started = -1]

\* finish()
finish(c) ==
    [c EXCEPT !.started = -1,
              !.animValueXMin = ValueFinish(c.animValueXMin),
              !.animValueXMax = ValueFinish(c.animValueXMax),
              !.animValueYMin = ValueFinish(c.animValueYMin),
              !.animValueYMax = ValueFinish(c.animValueYMax),
              !.animValueYAlpha = ValueFinish(c.animValueYAlpha)]

\* resetAlpha()
resetAlpha(c) ==
    [c EXCEPT !.alphaAnimationStartedAt = 0,
              !.animValueYAlpha = Value(0, Res)]

currentXLimits(c) == [min |-> c.animValueXMin.cur, max |-> c.animValueXMax.cur]
currentHeightLimits(c) == [min |-> c.animValueYMin.cur, max |-> c.animValueYMax.cur]
finalHeightLimits(c) == c.finalHeightLimits
targetXLimits(c) == [min |-> To(c.animValueXMin), max |-> To(c.animValueXMax)]
targetHeightLimits(c) == [min |-> To(c.animValueYMin), max |-> To(c.animValueYMax)]

\* ---------------------------------------------------- gridline groups
\* ChartHorizontalLinesData(newMaxHeight, newMinHeight, true): first and
\* last are lines.front().absoluteValue and lines.back().absoluteValue.
ChartHorizontalLinesData(newMaxHeight, newMinHeight, id) ==
    [id |-> id, first |-> newMinHeight, last |-> newMaxHeight,
     alpha |-> 0, fixedAlpha |-> Res]

\* A freeze that leaves every fixedAlpha as it is.
FreezeNothing(horizontalLines) == horizontalLines

\* Every existing group's alpha frozen into fixedAlpha.
FreezeAlpha(horizontalLines) ==
    [i \in 1..Len(horizontalLines) |->
        [horizontalLines[i] EXCEPT !.fixedAlpha = horizontalLines[i].alpha]]

\* addHorizontalLine(newHeight, animated)
addHorizontalLine(horizontalLines, newHeight, animated, id) ==
    LET newLinesData == ChartHorizontalLinesData(newHeight.max, newHeight.min, id)
    IN  IF animated
          THEN Append(FreezeAlpha(horizontalLines), newLinesData)
          ELSE << [newLinesData EXCEPT !.alpha = Res] >>

\* The handler of heightAnimationStarts and userInteractionFinished.
InteractionFinished(c, horizontalLines, clock, id) ==
    [c |-> Start(resetAlpha(c), clock),
     lines |-> addHorizontalLine(horizontalLines, finalHeightLimits(c), TRUE, id)]

\* A throttle with the delay of the rescale in place of the cooldown.
ThrottledShort(now, lastHeightLimitsChanged) ==
    (now - lastHeightLimitsChanged) < kExpandingDelay

\* The range-change handler lets a new group through only when the last
\* one it let through is at least kHeightLimitsUpdateTimeout old.
Throttled(now, lastHeightLimitsChanged) ==
    (now - lastHeightLimitsChanged) < kHeightLimitsUpdateTimeout

\* The handler of xPercentageLimitsChange, at crl::now() = clock.
LimitsChanged(c, horizontalLines, lastChanged, chartData, limits, clock, id) ==
    LET c1 == setXPercentageLimits(c, chartData, limits, clock, clock)
    IN  IF Throttled(clock, lastChanged)
          THEN [c |-> c1, lines |-> horizontalLines, lastChanged |-> lastChanged]
          ELSE [c |-> resetAlpha(c1),
                lines |-> addHorizontalLine(horizontalLines,
                                            finalHeightLimits(c1), TRUE, id),
                lastChanged |-> clock]

\* ------------------------------------------------------------------ tick
\* A test that forgets the Y start time.
HeightAnimationStartsAgain(c, now) ==
    (now - c.lastUserInteracted) >= kExpandingDelay

\* A test that forgets the delay after the last range change.
HeightAnimationStartsAtOnce(c, now) ==
    c.yAnimationStartedAt = 0

\* The test under which tick fires heightAnimationStarts.
HeightAnimationStarts(c, now) ==
    /\ c.yAnimationStartedAt = 0
    /\ (now - c.lastUserInteracted) >= kExpandingDelay

\* _dtCurrent advanced by _dtYSpeed, capped at 1.
AdvanceDt(c) ==
    [min |-> Min(c.dtCurrent.min + c.dtYSpeed, DtOne),
     max |-> Min(c.dtCurrent.max + c.dtYSpeed, DtOne)]

\* dtX and dtAlpha: elapsed time over the duration, capped at 1; kept as
\* the numerator over the duration.
ProgressX(c, now) == Min(now - c.started, kXExpandingDuration)
ProgressAlpha(c, now) == Min(now - c.alphaAnimationStartedAt, kAlphaExpandingDuration)

isFinished(v) == v.cur = To(v)
xFinished(c) == isFinished(c.animValueXMin) /\ isFinished(c.animValueXMax)
yFinished(c) == isFinished(c.animValueYMin) /\ isFinished(c.animValueYMax)
alphaFinished(c) == isFinished(c.animValueYAlpha)

\* The newest group was built from the Y target.
NewestMatches(c, horizontalLines) ==
    LET back == horizontalLines[Len(horizontalLines)]
    IN  /\ back.first = To(c.animValueYMin)
        /\ back.last = To(c.animValueYMax)

\* A test that does not wait for the crossfade.
ShouldStopUnfaded(c, horizontalLines) ==
    /\ xFinished(c) /\ yFinished(c)
    /\ NewestMatches(c, horizontalLines)

\* The test under which tick stops the animation.
ShouldStop(c, horizontalLines) ==
    /\ xFinished(c) /\ yFinished(c) /\ alphaFinished(c)
    /\ NewestMatches(c, horizontalLines)

\* A crossfade that treats the newest group as the others.
CrossfadeOlder(horizontalLines, value) ==
    [i \in 1..Len(horizontalLines) |->
        [horizontalLines[i] EXCEPT
           !.alpha = MulDiv(horizontalLines[i].fixedAlpha, Res - value, Res)]]

\* Every group's alpha set from the crossfade value, the newest one's to
\* the value itself.
Crossfade(horizontalLines, value) ==
    [i \in 1..Len(horizontalLines) |->
        IF i = Len(horizontalLines)
          THEN [horizontalLines[i] EXCEPT !.alpha = value]
          ELSE [horizontalLines[i] EXCEPT
                  !.alpha = MulDiv(horizontalLines[i].fixedAlpha, Res - value, Res)]]

\* An erase of the back of the list where the front has no alpha.
RetireNewest(horizontalLines) ==
    IF Len(horizontalLines) > 1 /\ horizontalLines[1].alpha = 0
      THEN SubSeq(horizontalLines, 1, Len(horizontalLines) - 1)
      ELSE horizontalLines

\* An erase of the front group alone, where it has no alpha.
RetireOne(horizontalLines) ==
    IF Len(horizontalLines) > 1 /\ horizontalLines[1].alpha = 0
      THEN Tail(horizontalLines)
      ELSE horizontalLines

\* Groups erased from the front while they have no alpha and are not alone.
RECURSIVE Retire(_)
Retire(horizontalLines) ==
    IF Len(horizontalLines) > 1 /\ horizontalLines[1].alpha = 0
      THEN Retire(Tail(horizontalLines))
      ELSE horizontalLines

\* The test under which tick clears the Y and alpha start timestamps.
ClearsTimestamps(yDone, alphaDone) == yDone /\ alphaDone

\* tick(now, horizontalLines) of a running animation, statement by
\* statement.  A tick in progress is a record: the controller c, the list
\* lines, the number of events fired, and the locals dtX, dtAlpha,
\* xFinished, yFinished and alphaFinished once they are computed.

\* The event fired: its handler has run, and the Y start time is set.
TickFired(h) ==
    [c |-> [h.c EXCEPT !.yAnimationStartedAt =
                          h.c.lastUserInteracted + kExpandingDelay],
     lines |-> h.lines,
     fired |-> 1]
TickFire(c, horizontalLines, now, id) ==
    IF HeightAnimationStarts(c, now)
      THEN TickFired(InteractionFinished(c, horizontalLines, now, id))
      ELSE [c |-> c, lines |-> horizontalLines, fired |-> 0]

TickAlphaStart(c, now) ==
    IF c.alphaAnimationStartedAt = 0
      THEN [c EXCEPT !.alphaAnimationStartedAt = now]
      ELSE c
TickDt(c) == [c EXCEPT !.dtCurrent = AdvanceDt(c)]

\* The locals of the tick, from the controller c after the steps above.
TickLocals(s, c, now) ==
    [c |-> c, lines |-> s.lines, fired |-> s.fired,
     dtX |-> ProgressX(c, now),
     dtAlpha |-> ProgressAlpha(c, now),
     xDone |-> xFinished(c),
     yDone |-> yFinished(c),
     alphaDone |-> alphaFinished(c)]
TickStart(s, now) == TickLocals(s, TickDt(TickAlphaStart(s.c, now)), now)

TickStop(s) ==
    IF ShouldStop(s.c, s.lines) THEN [s EXCEPT !.c.started = -1] ELSE s

TickX(s) ==
    IF s.xDone
      THEN [s EXCEPT !.c.animValueXMin = ValueFinish(s.c.animValueXMin),
                     !.c.animValueXMax = ValueFinish(s.c.animValueXMax)]
      ELSE [s EXCEPT
              !.c.animValueXMin = ValueUpdateLinear(s.c.animValueXMin,
                                      s.dtX, kXExpandingDuration),
              !.c.animValueXMax = ValueUpdateLinear(s.c.animValueXMax,
                                      s.dtX, kXExpandingDuration)]

TickY(s) ==
    IF s.c.yAnimationStartedAt # 0
      THEN [s EXCEPT
              !.c.animValueYMin = ValueUpdateCubic(s.c.animValueYMin,
                                      s.c.dtCurrent.min, DtOne),
              !.c.animValueYMax = ValueUpdateCubic(s.c.animValueYMax,
                                      s.c.dtCurrent.max, DtOne),
              !.c.animValueYAlpha = ValueUpdateCubic(s.c.animValueYAlpha,
                                      s.dtAlpha, kAlphaExpandingDuration)]
      ELSE s

\* A tick that erases no group.
FadeKeeps(faded, value) == faded

Fade(faded, value) == IF value = Res THEN Retire(faded) ELSE faded
TickAlpha(s) ==
    IF s.dtAlpha >= 0 /\ s.dtAlpha <= kAlphaExpandingDuration
      THEN [s EXCEPT !.lines = Fade(Crossfade(s.lines, s.c.animValueYAlpha.cur),
                                    s.c.animValueYAlpha.cur)]
      ELSE s

TickClear(s) ==
    IF ClearsTimestamps(s.yDone, s.alphaDone)
      THEN [s EXCEPT !.c.alphaAnimationStartedAt = 0,
                     !.c.yAnimationStartedAt = 0]
      ELSE s

\* The whole tick, with the handler of heightAnimationStarts run where the
\* event fires; ids of new groups start at id.
\* Each statement is applied to the tick in progress that the statements
\* before it have left.
Only(S) == CHOOSE s \in S : TRUE
Ticking(c, horizontalLines, now, id) ==
    Only({TickClear(s6) : s6 \in
         {TickAlpha(s5) : s5 \in
         {TickY(s4) : s4 \in
         {TickX(s3) : s3 \in
         {TickStop(s2) : s2 \in
         {TickStart(s1, now) : s1 \in
         {TickFire(c, horizontalLines, now, id)}}}}}}})

\* What tick leaves when the animation is not running: nothing is touched.
TickIdle(c, horizontalLines) ==
    [c |-> c, lines |-> horizontalLines, fired |-> 0,
     dtX |-> -1, dtAlpha |-> -1, xDone |-> FALSE, yDone |-> FALSE,
     alphaDone |-> FALSE]

\* tick(now, horizontalLines): returns at once unless the animation runs.
tick(c, horizontalLines, now, id) ==
    IF ~animating(c) THEN TickIdle(c, horizontalLines)
    ELSE Ticking(c, horizontalLines, now, id)

\* ---------------------------------------------------------------- footer
\* The limits the footer fires: left edge of the left handle and right
\* edge of the right handle over the track width.
FooterLimits(left, right) ==
    [min |-> Fraction(left, TrackWidth),
     max |-> Fraction(right + HandleWidth, TrackWidth)]

\* The limits a press on a handle records: leftLimit() and rightLimit().
LeftLimit(side, left, right) ==
    IF side = "left" THEN 0 ELSE left + HandleWidth
\* A right limit of the left handle that forgets the handle's width.
RightLimitNoWidth(side, left, right) ==
    IF side = "left" THEN right ELSE TrackWidth - HandleWidth
RightLimit(side, left, right) ==
    IF side = "left" THEN right - HandleWidth ELSE TrackWidth - HandleWidth

\* Where a move without Ctrl can put the dragged handle: one place unless
\* the limits of the press are out of order.
NextX(x, posX, st) == Clamp(x + (posX - st.x), st.leftLimit, st.rightLimit)

\* Where a move with Ctrl puts a handle.
CtrlX(x, posX, st) == x + (posX - st.x)

NoStart == [x |-> 0, leftLimit |-> 0, rightLimit |-> 0]

\* ----------------------------------------------------------------- state
VARIABLES
    leftX,                   \* _left->x()
    rightX,                  \* _right->x()
    down,                    \* the handle that isDown(): "left", "right", "none"
    start,                   \* Footer::_start (x, leftLimit, rightLimit)
    controller,              \* ChartWidget::_animationController
    chartData,               \* ChartWidget::_chartData: an index of Charts, 0 for none
    horizontalLines,         \* ChartWidget::_horizontalLines
    lastHeightLimitsChanged, \* ChartWidget::_lastHeightLimitsChanged
    now,                     \* crl::now()
    nextId,                  \* number of gridline groups built so far
    inputs,                  \* number of setChartData, move and release events so far
    lastOp,                  \* the operation that ran last
    paints,                  \* repaints so far that came with no move of the clock
    skips,                   \* moves of the clock so far that came with no repaint
    fired,                   \* heightAnimationStarts events fired by the last operation
    tickDt,                  \* dtX, _dtCurrent and dtAlpha of the last tick of this
                             \* animation run
    born,                    \* who built groups in the last operation, in order
    prevBorn,                \* when and by whom the latest group before the last
                             \* operation was built
    ctrlUsed,                \* a move with Ctrl held has happened
    acted                    \* the footer has fired a range change since the
                             \* last setChartData

vars == <<leftX, rightX, down, start, controller, chartData, horizontalLines,
          lastHeightLimitsChanged, now, nextId, inputs, lastOp, paints, skips,
          fired, tickDt, born, prevBorn, ctrlUsed, acted>>

footerVars == <<leftX, rightX, down, start>>

NoDt == [x |-> -1, y |-> -1, alpha |-> -1]
NoBorn == [at |-> -1, by |-> "none"]

Init ==
    /\ leftX = 0
    /\ rightX = TrackWidth - HandleWidth
    /\ down = "none"
    /\ start = NoStart
    /\ controller = NewController
    /\ chartData = 0
    /\ horizontalLines = <<>>
    /\ lastHeightLimitsChanged = 0
    /\ now = StartTime
    /\ nextId = 0
    /\ inputs = 0
    /\ lastOp = "init"
    /\ paints = 0
    /\ skips = 0
    /\ fired = 0
    /\ tickDt = NoDt
    /\ born = <<>>
    /\ prevBorn = NoBorn
    /\ ctrlUsed = FALSE
    /\ acted = FALSE

\* When and by whom the latest group was built, the last operation
\* included.
LatestBorn == IF born # <<>> THEN [at |-> now, by |-> born[Len(born)]] ELSE prevBorn

\* dtX and dtAlpha of the previous tick are forgotten when an operation
\* starts a stopped animation.
DtAfter(c) == IF ~animating(controller) /\ animating(c) THEN NoDt ELSE tickDt

\* ------------------------------------------------------------ setChartData
WholeData(data) ==
    [min |-> data.xPercentage[1], max |-> data.xPercentage[Len(data.xPercentage)]]
Loaded(d, c) ==
    /\ chartData' = d
    /\ controller' = c
    /\ horizontalLines' = addHorizontalLine(horizontalLines,
                              finalHeightLimits(c), FALSE, nextId)
setChartData(d) ==
    /\ inputs < MaxInputs
    /\ inputs' = inputs + 1
    /\ Loaded(d, finish(setXPercentageLimits(controller, ChartOf(d),
                                             WholeData(ChartOf(d)), 0, now)))
    /\ nextId' = nextId + 1
    /\ lastOp' = "setChartData"
    /\ fired' = 0
    /\ tickDt' = NoDt
    /\ born' = <<"setChartData">>
    /\ prevBorn' = LatestBorn
    /\ UNCHANGED <<footerVars, lastHeightLimitsChanged, now, paints, skips,
                   ctrlUsed>>
    /\ acted' = FALSE

\* ------------------------------------------------------------ paintEvent
\* What a tick t leaves behind.
Ticked(t) ==
    /\ Len(t.lines) <= MaxGroups
    /\ controller' = t.c
    /\ horizontalLines' = t.lines
    /\ fired' = t.fired
    /\ nextId' = nextId + t.fired
    /\ tickDt' = [x |-> t.dtX, y |-> t.c.dtCurrent.min, alpha |-> t.dtAlpha]
    /\ born' = IF t.fired = 1 THEN <<"heightAnimationStarts">> ELSE <<>>
    /\ prevBorn' = LatestBorn

\* paintEvent runs tick(crl::now(), _horizontalLines); at is crl::now().
paintEvent(at) ==
    IF ~animating(controller)
      THEN /\ fired' = 0
           /\ born' = <<>>
           /\ prevBorn' = LatestBorn
           /\ UNCHANGED <<controller, horizontalLines, nextId, tickDt>>
      ELSE /\ horizontalLines # <<>>
           /\ \E t \in {tick(controller, horizontalLines, at, nextId)} :
                 Ticked(t)

\* A repaint at the current clock reading.
Paint ==
    /\ paints < MaxPaints
    /\ paints' = paints + 1
    /\ paintEvent(now)
    /\ lastOp' = "tick"
    /\ UNCHANGED <<footerVars, chartData, lastHeightLimitsChanged, now,
                   inputs, skips, ctrlUsed, acted>>

\* The clock is followed for Horizon ms from StartTime on.
ClockSteps == {100, 220}
ClockMoves(d) == now + d <= StartTime + Horizon

\* The clock moves on by d with no event of the widget in between.
Advance(d) ==
    /\ ClockMoves(d)
    /\ skips < MaxSkips
    /\ skips' = skips + 1
    /\ now' = now + d
    /\ lastOp' = "advance"
    /\ fired' = 0
    /\ born' = <<>>
    /\ prevBorn' = LatestBorn
    /\ UNCHANGED <<footerVars, controller, chartData, horizontalLines,
                   lastHeightLimitsChanged, nextId, inputs, paints, tickDt,
                   ctrlUsed, acted>>

\* The next frame: the clock has moved on by d when the widget is
\* repainted.
Frame(d) ==
    /\ ClockMoves(d)
    /\ now' = now + d
    /\ paintEvent(now + d)
    /\ lastOp' = "tick"
    /\ UNCHANGED <<footerVars, chartData, lastHeightLimitsChanged,
                   inputs, paints, skips, ctrlUsed, acted>>

\* ---------------------------------------------------------- footer events
\* What the range-change handler does with the limits the footer fires,
\* from controller c and groups lines, with ids from id on.
Handled(r, grew, whoBefore, id) ==
    /\ Len(r.lines) <= MaxGroups
    /\ controller' = r.c
    /\ horizontalLines' = r.lines
    /\ lastHeightLimitsChanged' = r.lastChanged
    /\ nextId' = id + (IF grew THEN 1 ELSE 0)
    /\ born' = IF grew THEN Append(whoBefore, "xPercentageLimitsChange")
               ELSE whoBefore
    /\ prevBorn' = LatestBorn
    /\ tickDt' = DtAfter(r.c)
FireLimits(c, lines, whoBefore, id, limits) ==
    \E outside \in OutsideData :
        Handled(LimitsChanged(c, lines, lastHeightLimitsChanged,
                              Queried(ChartOf(chartData), outside), limits,
                              now, id),
                ~Throttled(now, lastHeightLimitsChanged), whoBefore, id)

\* The pointer is with one handle at a time: while a handle is down the
\* events of the pointer go to that handle.
MouseButtonPress(side, posX) ==
    /\ down \in {"none", side}
    /\ down' = side
    /\ start' = [x |-> posX,
                 leftLimit |-> LeftLimit(side, leftX, rightX),
                 rightLimit |-> RightLimit(side, leftX, rightX)]
    /\ lastOp' = "press"
    /\ fired' = 0
    /\ born' = <<>>
    /\ prevBorn' = LatestBorn
    /\ UNCHANGED <<leftX, rightX, controller, chartData, horizontalLines,
                   lastHeightLimitsChanged, now, nextId, inputs, paints,
                   skips, tickDt, ctrlUsed, acted>>

\* Where a move can put the two handles.
MovedLeft(side, posX, ctrl) ==
    IF ctrl THEN {CtrlX(leftX, posX, start)}
    ELSE IF side = "left" THEN NextX(leftX, posX, start) ELSE {leftX}
MovedRight(side, posX, ctrl) ==
    IF ctrl THEN {CtrlX(rightX, posX, start)}
    ELSE IF side = "right" THEN NextX(rightX, posX, start) ELSE {rightX}

MouseMove(side, posX, ctrl) ==
    /\ down = side
    /\ inputs < MaxInputs
    /\ inputs' = inputs + 1
    /\ \E left \in MovedLeft(side, posX, ctrl),
          right \in MovedRight(side, posX, ctrl) :
          /\ leftX' = left
          /\ rightX' = right
          /\ FireLimits(controller, horizontalLines, <<>>, nextId,
                        FooterLimits(left, right))
    /\ lastOp' = "move"
    /\ fired' = 0
    /\ ctrlUsed' = (ctrlUsed \/ ctrl)
    /\ acted' = TRUE
    /\ UNCHANGED <<down, start, chartData, now, paints, skips>>

MouseButtonRelease(side) ==
    LET h == InteractionFinished(controller, horizontalLines, now, nextId)
    IN  /\ down \in {"none", side}
        /\ inputs < MaxInputs
        /\ inputs' = inputs + 1
        /\ FireLimits(h.c, h.lines, <<"userInteractionFinished">>, nextId + 1,
                      FooterLimits(leftX, rightX))
        /\ down' = "none"
        /\ start' = NoStart
        /\ lastOp' = "release"
        /\ fired' = 0
        /\ acted' = TRUE
        /\ UNCHANGED <<leftX, rightX, chartData, now, paints, skips, ctrlUsed>>

Sides == {"left", "right"}
\* pos.x of a press lies inside the handle; pos.x of a move is anywhere.
PressXs == 0..(HandleWidth - 1)
MoveXs == {-TrackWidth, -1, 1, TrackWidth}

Next ==
    \/ \E d \in 1..Len(Charts) : setChartData(d)
    \/ Paint
    \/ \E side \in Sides, posX \in PressXs : MouseButtonPress(side, posX)
    \/ \E side \in Sides, posX \in MoveXs, ctrl \in BOOLEAN :
          MouseMove(side, posX, ctrl)
    \/ \E side \in Sides : MouseButtonRelease(side)
    \/ \E d \in ClockSteps : Advance(d)
    \/ \E d \in ClockSteps : Frame(d)

Spec == Init /\ [][Next]_vars

\* ---------------------------------------------------------- the long run
\* The animation followed to its end.  While the animation runs its
\* callback has the widget repainted every RunStep ms, up to RunHorizon ms
\* from StartTime on.  The events that meet a running animation are
\* followed for RunBusy ms from StartTime on, the events that meet an
\* animation at rest are followed throughout.
EventsCome == now <= StartTime + RunBusy \/ ~animating(controller)

RunFrame ==
    /\ animating(controller)
    /\ now + RunStep <= StartTime + RunHorizon
    /\ now' = now + RunStep
    /\ paintEvent(now + RunStep)
    /\ lastOp' = "tick"
    /\ UNCHANGED <<footerVars, chartData, lastHeightLimitsChanged,
                   inputs, paints, skips, ctrlUsed, acted>>

\* The clock of a widget at rest moves on by d, past Horizon too.
RunRest(d) ==
    /\ ~animating(controller)
    /\ now + d <= StartTime + RunHorizon
    /\ skips < MaxSkips
    /\ skips' = skips + 1
    /\ now' = now + d
    /\ lastOp' = "advance"
    /\ fired' = 0
    /\ born' = <<>>
    /\ prevBorn' = LatestBorn
    /\ UNCHANGED <<footerVars, controller, chartData, horizontalLines,
                   lastHeightLimitsChanged, nextId, inputs, paints, tickDt,
                   ctrlUsed, acted>>

RunNext ==
    \/ \E d \in 1..Len(Charts) : EventsCome /\ setChartData(d)
    \/ EventsCome /\ Paint
    \/ \E side \in Sides, posX \in PressXs :
          EventsCome /\ MouseButtonPress(side, posX)
    \/ \E side \in Sides, posX \in MoveXs, ctrl \in BOOLEAN :
          EventsCome /\ MouseMove(side, posX, ctrl)
    \/ \E side \in Sides : EventsCome /\ MouseButtonRelease(side)
    \/ \E d \in ClockSteps : RunRest(d)
    \/ RunFrame

\* Repaints keep coming while the animation runs.
Run == Init /\ [][RunNext]_vars /\ WF_vars(RunFrame)

\* ------------------------------------------------------------ properties
\* The values of every line of chart over the indices of the window limits.
WindowValues(chart, limits) ==
    LET s == findStartIndex(chart, limits.min)
        e == findEndIndex(chart, s, limits.max)
    IN  {chart.lines[l][i + 1] : l \in 1..Len(chart.lines), i \in s..e}

SetMin(S) == CHOOSE v \in S : \A w \in S : v <= w
SetMax(S) == CHOOSE v \in S : \A w \in S : v >= w

\* The smallest and largest value any line takes inside the window.
TrueLimits(chart, limits) ==
    [min |-> SetMin(WindowValues(chart, limits)),
     max |-> SetMax(WindowValues(chart, limits))]

\* The index range of an X window holds a sample.
ValidRange(chart, limits) ==
    LET s == findStartIndex(chart, limits.min)
    IN  chart.lines # <<>> =>
          /\ s < Len(chart.xPercentage)
          /\ s <= findEndIndex(chart, s, limits.max)

\* The pairs f1 <= f2 of fractions of the track, with a non-degenerate
\* index range in the loaded store.
WindowPairs ==
    {p \in {[min |-> Fraction(a, TrackWidth), max |-> Fraction(b, TrackWidth)] :
               a \in 0..TrackWidth, b \in 0..TrackWidth} :
        p.min <= p.max /\ ValidRange(ChartOf(chartData), p)}

WholeSpan ==
    LET data == ChartOf(chartData)
    IN  [min |-> data.xPercentage[1],
         max |-> data.xPercentage[Len(data.xPercentage)]]

\* C1: for every store and every pair f1 <= f2 with a non-degenerate index
\* range, setXPercentageLimits followed by finish() leaves the current X
\* limits exactly (f1, f2) and the current Y limits exactly the minimum
\* and maximum of the store over that window.
C1_SetThenFinishIsExact ==
    chartData # 0 =>
        \A p \in WindowPairs :
            LET c == finish(setXPercentageLimits(controller, ChartOf(chartData),
                                                 p, now, now))
            IN  /\ currentXLimits(c) = p
                /\ currentHeightLimits(c) = TrueLimits(ChartOf(chartData), p)

\* C2: right after setChartData the controller is idle, the current X
\* limits are the store's first and last fraction, the current and final
\* Y limits are the store's minimum and maximum over that span, and the
\* list holds exactly one group, built from those limits, at full alpha.
C2_SetChartDataResets ==
    lastOp = "setChartData" =>
        LET y == TrueLimits(ChartOf(chartData), WholeSpan)
        IN  /\ ~animating(controller)
            /\ currentXLimits(controller) = WholeSpan
            /\ currentHeightLimits(controller) = y
            /\ finalHeightLimits(controller) = y
            /\ Len(horizontalLines) = 1
            /\ horizontalLines[1].first = y.min
            /\ horizontalLines[1].last = y.max
            /\ horizontalLines[1].alpha = Res

\* C3: whatever the pointer does, with or without Ctrl, both handles stay
\* inside the track and the left handle's right edge never passes the
\* right handle's left edge.
C3_HandlesStayInTrack ==
    /\ 0 <= leftX
    /\ leftX + HandleWidth <= rightX
    /\ rightX + HandleWidth <= TrackWidth

\* C4 as stated: while the window changes and no release comes in between,
\* any two group creations, by a range change or by a tick, are at least
\* 320 ms apart.
C4_CreationsApart ==
    ( /\ lastOp \in {"move", "tick"}
      /\ born # <<>>
      /\ prevBorn.by \in {"xPercentageLimitsChange", "heightAnimationStarts"} )
    => now - prevBorn.at >= kHeightLimitsUpdateTimeout

ChangeSpawned ==
    \E i \in 1..Len(born) : born[i] = "xPercentageLimitsChange"

\* C4 amended: the range-change handler builds a group exactly when at
\* least 320 ms have passed since it last built one, and records the time
\* then; so two groups built by range changes are at least 320 ms apart,
\* and a range change within 320 ms of the last one builds nothing.
C4_ChangeSpawnsApart ==
    [][ lastOp' \in {"move", "release"} =>
          /\ ChangeSpawned' <=>
                (now' - lastHeightLimitsChanged >= kHeightLimitsUpdateTimeout)
          /\ lastHeightLimitsChanged' =
                IF ChangeSpawned' THEN now' ELSE lastHeightLimitsChanged ]_vars

\* A second range change came within 320 ms of one that built a group,
\* and built none.
C4_Witness ==
    /\ lastOp = "move"
    /\ born = <<>>
    /\ prevBorn.by = "xPercentageLimitsChange"
    /\ now - prevBorn.at < kHeightLimitsUpdateTimeout
    /\ lastHeightLimitsChanged = prevBorn.at

\* A tick of a controller that has already ticked since its animation
\* started: the step's own tick follows a previous one of the same run.
NextTick == lastOp' = "tick" /\ animating(controller) /\ tickDt # NoDt

\* C5 as stated: while the controller stays active, from one tick to the
\* next none of the three progress fractions (X, Y, alpha) decreases.
C5_ProgressNeverDecreases ==
    [][ NextTick =>
          /\ tickDt'.x >= tickDt.x
          /\ tickDt'.y >= tickDt.y
          /\ tickDt'.alpha >= tickDt.alpha ]_vars

\* C5 amended: from one tick to the next the X progress never decreases;
\* the Y progress never decreases inside a tick and is lowered only by a
\* range change that moves the target, which puts it back to 0 whether or
\* not the controller is at rest; the alpha progress never decreases while
\* the alpha start time stays set, and is 0 in the first tick after that
\* time was cleared, be it by this tick's own rescale-started event.
C5_ProgressRestarts ==
    [][ /\ NextTick =>
             /\ tickDt'.x >= tickDt.x
             /\ tickDt'.y >= controller.dtCurrent.min
             /\ IF controller.alphaAnimationStartedAt # 0 /\ fired' = 0
                  THEN tickDt'.alpha >= tickDt.alpha
                  ELSE tickDt'.alpha = 0
        /\ controller'.dtCurrent.min < controller.dtCurrent.min =>
             /\ lastOp' \in {"setChartData", "move", "release"}
             /\ controller'.dtCurrent = [min |-> 0, max |-> 0]
             /\ targetXLimits(controller') # targetXLimits(controller) ]_vars

\* A tick after an earlier one of the same run, with the three progress
\* fractions all under way.
C5_Witness ==
    /\ lastOp = "tick"
    /\ animating(controller)
    /\ tickDt.x > 0
    /\ tickDt.y > kDtHeightSpeed1
    /\ tickDt.alpha > 0

\* C6: a tick fires the rescale-started event at most once, and only when
\* the Y start time is unset and at least 100 ms have passed since the
\* last range change; the tick that fires sets the Y start time, so the
\* rescale begins exactly when the event fires; and only a tick that finds
\* Y and alpha finished clears the Y start time again.
C6_RescaleStartsOnce ==
    [][ /\ fired' <= 1
        /\ fired' = 1 =>
             /\ lastOp' = "tick"
             /\ controller.yAnimationStartedAt = 0
             /\ now' - controller.lastUserInteracted >= kExpandingDelay
        /\ (controller.yAnimationStartedAt = 0
              /\ controller'.yAnimationStartedAt # 0) <=> fired' = 1
        /\ (controller.yAnimationStartedAt # 0
              /\ controller'.yAnimationStartedAt = 0) =>
             /\ lastOp' = "tick"
             /\ fired' = 0
             /\ yFinished(controller)
             /\ alphaFinished(controller) ]_vars

\* A tick has just fired the event, 100 ms or more after a range change,
\* and the rescale has begun.
C6_Witness ==
    /\ lastOp = "tick"
    /\ fired = 1
    /\ controller.lastUserInteracted > 0
    /\ controller.yAnimationStartedAt =
          controller.lastUserInteracted + kExpandingDelay
    /\ born = <<"heightAnimationStarts">>

\* Controller c differs from the present one in its targets only, which
\* are the pair p and the store's minimum and maximum over p.
TargetsOnly(c, p) ==
    /\ currentXLimits(c) = currentXLimits(controller)
    /\ currentHeightLimits(c) = currentHeightLimits(controller)
    /\ targetXLimits(c) = p
    /\ targetHeightLimits(c) = TrueLimits(ChartOf(chartData), p)
    /\ finalHeightLimits(c) = TrueLimits(ChartOf(chartData), p)

\* C7: a range change while an animation is in flight leaves the current
\* X and Y limits as they are; only the targets change: the X target is
\* the new pair and the Y target is the minimum and maximum of the store
\* over the new window.
C7_OnlyTargetsChange ==
    (chartData # 0 /\ animating(controller)) =>
        \A p \in WindowPairs :
            TargetsOnly(setXPercentageLimits(controller, ChartOf(chartData),
                                             p, now, now), p)

\* C8: setXPercentageLimits with the pair that already is the X target
\* changes nothing in the controller, whatever the store and the time
\* passed in, at rest or in flight.
C8_SameTargetIsNoOp ==
    \A d \in 0..Len(Charts), t \in {0, now} :
        setXPercentageLimits(controller, ChartOf(d), targetXLimits(controller),
                             t, now) = controller

\* A release has fired the range-change event with the pair that was the
\* X target already, while the animation from an earlier move is in
\* flight and the current limits are still on their way.
C8_Witness ==
    /\ lastOp = "release"
    /\ animating(controller)
    /\ targetXLimits(controller) = FooterLimits(leftX, rightX)
    /\ currentXLimits(controller) # targetXLimits(controller)
    /\ controller.lastUserInteracted < now

\* C9 as stated: the group that is last in the list before a tick is
\* still last after it, and the list is not empty after it.
C9_NewestStaysLast ==
    [][ (lastOp' = "tick" /\ horizontalLines # <<>>) =>
          /\ horizontalLines' # <<>>
          /\ horizontalLines'[Len(horizontalLines')].id =
                horizontalLines[Len(horizontalLines)].id ]_vars

\* C9 amended: a tick never removes the group that is last before it:
\* after the tick that group is still in the list, last when the tick
\* built no group and last but one when the tick's rescale-started event
\* appended one; and no operation leaves a non-empty list empty.
C9_NewestSurvives ==
    [][ /\ (lastOp' = "tick" /\ horizontalLines # <<>>) =>
             /\ Len(horizontalLines') > fired'
             /\ horizontalLines'[Len(horizontalLines') - fired'].id =
                   horizontalLines[Len(horizontalLines)].id
             /\ fired' = 1 => horizontalLines'[Len(horizontalLines')].id = nextId
        /\ horizontalLines # <<>> => horizontalLines' # <<>> ]_vars

\* The newest group was appended to older ones during an animation, and
\* a tick that took the alpha to 1 has retired the older ones and kept
\* the newest alone.
C9_Witness ==
    /\ lastOp = "tick"
    /\ fired = 0
    /\ prevBorn.by \in {"xPercentageLimitsChange", "heightAnimationStarts",
                        "userInteractionFinished"}
    /\ tickDt.alpha = kAlphaExpandingDuration
    /\ Len(horizontalLines) = 1
    /\ horizontalLines[1].id = nextId - 1
    /\ horizontalLines[1].alpha = Res

\* C10: as long as Ctrl has not been held during a move, the left handle
\* stays in [0, right.x - left.width] and the right handle in
\* [left.x + left.width, track width - right.width]; a move that would
\* take the left handle past the right one stops it exactly at
\* right.x - left.width, and one that would take it below 0 stops it at 0.
C10_LeftStopsAtRight ==
    ~ctrlUsed =>
        /\ 0 <= leftX /\ leftX <= rightX - HandleWidth
        /\ leftX + HandleWidth <= rightX /\ rightX <= TrackWidth - HandleWidth
        /\ down = "left" =>
             \A posX \in MoveXs :
                LET want == leftX + (posX - start.x)
                IN  \A x \in NextX(leftX, posX, start) :
                      /\ want > rightX - HandleWidth => x = rightX - HandleWidth
                      /\ want < 0 => x = 0
                      /\ (0 <= want /\ want <= rightX - HandleWidth) => x = want

\* A move without Ctrl has stopped the left handle against the right one.
C10_Witness ==
    /\ lastOp = "move"
    /\ ~ctrlUsed
    /\ down = "left"
    /\ leftX > 0
    /\ leftX = rightX - HandleWidth

\* C11: while no series data is present a footer range-change or release
\* event makes no min/max query: the controller's final Y limits stay what
\* they were at construction, and never become a pair with min > max.
C11_NoQueryWithoutData ==
    chartData = 0 =>
        /\ finalHeightLimits(controller) = finalHeightLimits(NewController)
        /\ finalHeightLimits(controller).min <= finalHeightLimits(controller).max

\* A tick of a running animation that comes less than 100 ms after the
\* latest range change that moved the target.
TickWithinDelay ==
    /\ lastOp' = "tick"
    /\ animating(controller)
    /\ now' - controller.lastUserInteracted < kExpandingDelay

\* C12 as stated: every tick that comes less than 100 ms after the latest
\* range change that moved the target leaves the current Y limits as they
\* are.
C12_NoRescaleWithinDelay ==
    [][ TickWithinDelay =>
          currentHeightLimits(controller') = currentHeightLimits(controller)
      ]_vars

\* C12 amended: a tick that comes less than 100 ms after the latest range
\* change that moved the target, and finds the Y start time unset, fires
\* no event, leaves the start time unset and leaves the current Y limits
\* as they are; and a tick moves the current Y limits only when the Y
\* start time is set, by an earlier tick or by its own event.
C12_RescaleWaitsForStart ==
    [][ /\ (TickWithinDelay /\ controller.yAnimationStartedAt = 0) =>
             /\ fired' = 0
             /\ controller'.yAnimationStartedAt = 0
             /\ currentHeightLimits(controller') = currentHeightLimits(controller)
        /\ ( /\ lastOp' = "tick"
             /\ currentHeightLimits(controller') # currentHeightLimits(controller) )
           => (controller.yAnimationStartedAt # 0 \/ fired' = 1) ]_vars

\* A tick has run within 100 ms of a range change that moved the Y target
\* away from the current Y limits, with the Y start time unset, and the
\* current limits are still away from the target.
C12_Witness ==
    /\ lastOp = "tick"
    /\ animating(controller)
    /\ controller.lastUserInteracted > 0
    /\ now - controller.lastUserInteracted < kExpandingDelay
    /\ controller.yAnimationStartedAt = 0
    /\ currentHeightLimits(controller) # targetHeightLimits(controller)

\* Controller c, the present one after a range change, has a Y target
\* away from its current Y limits.
Retargets(c) ==
    /\ c # controller
    /\ currentHeightLimits(c) # targetHeightLimits(c)

\* The tick of controller c that comes d ms from now stops short of the
\* Y target, its Y progress below 1.
StopsShort(t) ==
    /\ currentHeightLimits(t.c) # targetHeightLimits(t.c)
    /\ t.c.dtCurrent.min < DtOne
    /\ t.c.dtCurrent.max < DtOne
InterpolatesAfter(c) ==
    Retargets(c) =>
        \A d \in {0, RunStep} :
            \A t \in {tick(c, horizontalLines, now + d, nextId)} :
                StopsShort(t)

\* C13: after a range change that leaves the Y target away from the
\* current Y limits, the next tick does not take the current Y limits all
\* the way to the target: the Y progress it applies is below 1, whatever
\* the progress of the animation before was.
C13_NextTickInterpolates ==
    (chartData # 0 /\ horizontalLines # <<>>) =>
        \A p \in WindowPairs :
            \A c \in {setXPercentageLimits(controller, ChartOf(chartData),
                                           p, now, now)} :
                InterpolatesAfter(c)

\* A tick of a controller whose animation is running.
ActiveTick == lastOp' = "tick" /\ animating(controller)

\* The groups before the last one.
Older(lines) == 1..(Len(lines) - 1)

\* C14 as stated: after every tick of an active controller no group other
\* than the last one is in the list with alpha 0.
C14_NoFadedGroupStays ==
    [][ ActiveTick =>
          \A i \in Older(horizontalLines') : horizontalLines'[i].alpha # 0
      ]_vars

\* C14 amended: groups are retired only by the tick in which the
\* crossfade value is exactly 1; after every tick of an active controller,
\* a group other than the last one that is in the list with alpha 0 was
\* frozen at alpha 0 and the crossfade value is still below 1, and after a
\* tick that leaves the crossfade value at 1 no such group remains.
C14_FadedGroupsLeaveAtOne ==
    [][ ActiveTick =>
          \A i \in Older(horizontalLines') :
              horizontalLines'[i].alpha = 0 =>
                  /\ horizontalLines'[i].fixedAlpha = 0
                  /\ controller'.animValueYAlpha.cur < Res ]_vars

\* A tick has left a group other than the last one in the list with
\* alpha 0, the crossfade being on its way.
C14_Witness ==
    /\ lastOp = "tick"
    /\ animating(controller)
    /\ controller.animValueYAlpha.cur > 0
    /\ controller.animValueYAlpha.cur < Res
    /\ \E i \in Older(horizontalLines) :
          /\ horizontalLines[i].alpha = 0
          /\ horizontalLines[i].fixedAlpha = 0

\* The alphas of the groups lines follow the crossfade value v: the last
\* group has alpha v and every other one fixedAlpha * (1 - v), which is
\* not above the alpha it was frozen at; all of them lie in [0, 1].
FollowsCrossfade(lines, v) ==
    /\ 0 <= v /\ v <= Res
    /\ lines[Len(lines)].alpha = v
    /\ \A i \in Older(lines) :
          /\ lines[i].alpha = MulDiv(lines[i].fixedAlpha, Res - v, Res)
          /\ 0 <= lines[i].alpha
          /\ lines[i].alpha <= lines[i].fixedAlpha
          /\ lines[i].fixedAlpha <= Res

\* C15: after every tick of an active controller, with v the crossfade
\* value at the end of the tick, the newest group's alpha is v and every
\* other group's alpha is fixedAlpha * (1 - v); so only the newest group
\* fades in and all alphas lie in [0, 1].
C15_AlphasFollowCrossfade ==
    [][ ActiveTick =>
          FollowsCrossfade(horizontalLines', controller'.animValueYAlpha.cur)
      ]_vars

\* A tick has left the crossfade half way: the newest group is fading in
\* and an older one, frozen at a positive alpha, is fading out.
C15_Witness ==
    /\ lastOp = "tick"
    /\ animating(controller)
    /\ Len(horizontalLines) >= 2
    /\ horizontalLines[Len(horizontalLines)].alpha > 0
    /\ horizontalLines[Len(horizontalLines)].alpha < Res
    /\ \E i \in Older(horizontalLines) :
          /\ horizontalLines[i].alpha > 0
          /\ horizontalLines[i].alpha < horizontalLines[i].fixedAlpha

\* The list r holds group id alone, built from newHeight, at alpha 1.
ReplacedBy(r, newHeight, id) ==
    /\ Len(r) = 1
    /\ r[1].id = id
    /\ r[1].first = newHeight.min /\ r[1].last = newHeight.max
    /\ r[1].alpha = Res

\* The list r is the list lines with every fixedAlpha set to the group's
\* alpha, followed by group id, built from newHeight, at alpha 0.
GrownBy(r, lines, newHeight, id) ==
    /\ Len(r) = Len(lines) + 1
    /\ r[Len(r)].id = id
    /\ r[Len(r)].first = newHeight.min /\ r[Len(r)].last = newHeight.max
    /\ r[Len(r)].alpha = 0
    /\ \A i \in 1..Len(lines) :
          /\ r[i].id = lines[i].id
          /\ r[i].first = lines[i].first /\ r[i].last = lines[i].last
          /\ r[i].alpha = lines[i].alpha
          /\ r[i].fixedAlpha = lines[i].alpha

\* The limits addHorizontalLine is called with.
NewHeights == {finalHeightLimits(controller), currentHeightLimits(controller)}

\* C16: addHorizontalLine(limits, false) leaves the list with the new
\* group alone, at alpha 1; addHorizontalLine(limits, true) makes the list
\* one longer, with the new group last at alpha 0, and keeps the order and
\* the alpha of the groups that were there, each fixedAlpha set to the
\* alpha the group has at the call.
C16_AddHorizontalLine ==
    \A h \in NewHeights :
        /\ ReplacedBy(addHorizontalLine(horizontalLines, h, FALSE, nextId),
                      h, nextId)
        /\ GrownBy(addHorizontalLine(horizontalLines, h, TRUE, nextId),
                   horizontalLines, h, nextId)

\* The list holds a group in the middle of its fade, its alpha away from
\* the alpha it was frozen at, so that a call would freeze it anew; and
\* the last operation has called addHorizontalLine on such a list.
C16_Witness ==
    /\ Len(horizontalLines) >= 3
    /\ born # <<>>
    /\ horizontalLines[Len(horizontalLines)].alpha = 0
    /\ \E i \in Older(horizontalLines) :
          /\ horizontalLines[i].alpha > 0
          /\ horizontalLines[i].alpha < Res
          /\ horizontalLines[i].fixedAlpha = horizontalLines[i].alpha

\* X, Y and the crossfade of controller c are at their targets and the
\* newest group of lines was built from the Y target.
Settled(c, lines) ==
    /\ xFinished(c) /\ yFinished(c) /\ alphaFinished(c)
    /\ NewestMatches(c, lines)

\* C17: a tick stops the animation only when it finds X, Y and the
\* crossfade at their targets and the newest group built from the Y
\* target, which is still so after the tick; and in every state in which
\* the controller is idle the first and last line of the newest group are
\* the minimum and maximum of the Y target.
C17_StopsOnlySettled ==
    [][ /\ (ActiveTick /\ ~animating(controller')) =>
             /\ fired' = 0
             /\ Settled(controller, horizontalLines)
             /\ Settled(controller', horizontalLines')
        /\ (~animating(controller') /\ horizontalLines' # <<>>) =>
             NewestMatches(controller', horizontalLines') ]_vars

\* A tick has stopped an animation that a footer event had started and
\* that ran its crossfade to the end.
C17_Witness ==
    /\ lastOp = "tick"
    /\ ~animating(controller)
    /\ controller.lastUserInteracted > 0
    /\ tickDt.alpha = kAlphaExpandingDuration
    /\ prevBorn.by \in {"xPercentageLimitsChange", "heightAnimationStarts",
                        "userInteractionFinished"}
    /\ Settled(controller, horizontalLines)

\* C18: a tick of an active controller that leaves the crossfade value at
\* exactly 1 has set every older group's alpha to 0 and erased it in the
\* same tick: after the tick the list holds one group, the one that was
\* newest before the tick, at alpha 1.
C18_RetiredInSameTick ==
    [][ (ActiveTick /\ controller'.animValueYAlpha.cur = Res) =>
          /\ fired' = 0
          /\ Len(horizontalLines') = 1
          /\ horizontalLines'[1].id = horizontalLines[Len(horizontalLines)].id
          /\ horizontalLines'[1].alpha = Res ]_vars

\* A tick has taken the crossfade from 0 to exactly 1 and a group that was
\* appended to older ones is alone in the list.
C18_Witness ==
    /\ lastOp = "tick"
    /\ fired = 0
    /\ controller.animValueYAlpha = [cur |-> Res, from |-> 0, delta |-> Res]
    /\ Len(horizontalLines) = 1
    /\ horizontalLines[1].id >= 2
    /\ horizontalLines[1].alpha = Res

\* C19: in every state in which the controller is idle, at construction,
\* after finish() and after a tick has stopped the animation, the current
\* X limits are the X target and the current Y limits are the Y target.
C19_IdleIsAtTarget ==
    ~animating(controller) =>
        /\ currentXLimits(controller) = targetXLimits(controller)
        /\ currentHeightLimits(controller) = targetHeightLimits(controller)

\* setChartData has called finish() while the crossfade that a footer
\* event had started was still to run: the controller is idle and the
\* crossfade value has been put at its target.
C19_Witness ==
    /\ lastOp = "setChartData"
    /\ inputs >= 2
    /\ ~animating(controller)
    /\ controller.animValueYAlpha = [cur |-> Res, from |-> Res, delta |-> 0]
    /\ currentXLimits(controller) = targetXLimits(controller)
    /\ currentHeightLimits(controller) = targetHeightLimits(controller)

\* The controller is idle with the current X and Y limits at their
\* targets and the crossfade value at 1, the list holds one group, built
\* from the final Y limits, and the last tick fired no event.
AtRest ==
    /\ ~animating(controller)
    /\ currentXLimits(controller) = targetXLimits(controller)
    /\ currentHeightLimits(controller) = targetHeightLimits(controller)
    /\ controller.animValueYAlpha.cur = Res
    /\ Len(horizontalLines) = 1
    /\ horizontalLines[1].first = finalHeightLimits(controller).min
    /\ horizontalLines[1].last = finalHeightLimits(controller).max
    /\ fired = 0

\* The footer has sent a range change or a release since the chart data
\* was set.
FooterActed == chartData # 0 /\ acted

\* C20: once chart data is set and the footer has acted, if the footer
\* events stop and the repaints keep coming with the clock advancing, the
\* controller ends up idle for good, the current X and Y limits at their
\* targets, the crossfade value 1, the list holding the one group built
\* from the final Y limits, and the rescale-started event fired no more.
C20_EventuallyAtRest == <>[](FooterActed => AtRest)

\* Whenever the animation runs, the next frame's tick is within the bounds
\* of the long run, so that the frame can come.
FrameCanCome ==
    animating(controller) =>
        /\ now + RunStep <= StartTime + RunHorizon
        /\ horizontalLines # <<>>
        /\ Len(tick(controller, horizontalLines, now + RunStep, nextId).lines)
              <= MaxGroups

\* What does hold of the long run: the controller ends up idle for good
\* with X and Y at their targets and no further event, and it ends up at
\* rest whenever the handle has been released.
EndsIdle ==
    <>[](FooterActed =>
            /\ ~animating(controller)
            /\ currentXLimits(controller) = targetXLimits(controller)
            /\ currentHeightLimits(controller) = targetHeightLimits(controller)
            /\ fired = 0)
AtRestOnceReleased == <>[]((FooterActed /\ down = "none") => AtRest)
====
